---- MODULE Spec2Model ----
(***************************************************************************)
(* stones: fixed-size vectors (2, 3, 4 components) and row-major square    *)
(* matrices (2x2, 3x3, 4x4) over a signed integer scalar kind.             *)
(*                                                                         *)
(* The library is a flat set of pure functions; the state of the model is  *)
(* a caller's operands, the function called last and what it returned.     *)
(* The scalar kind is i32 scaled down to Bits bits.  The functions use the *)
(* native operators +, - and * of the scalar kind: for a Rust integer they *)
(* panic on overflow when the build has overflow checks (the dev profile)  *)
(* and wrap modulo 2^Bits when it has not (the release profile).  Both     *)
(* builds are modelled; the build is fixed in the initial state.           *)
(***************************************************************************)
EXTENDS Integers, Sequences, FiniteSets

VARIABLES
    overflow_checks,  \* TRUE: +, -, * panic on overflow; FALSE: they wrap
    n,                \* the dimension N of the operands, 2, 3 or 4
    A, B, C,          \* MatrixN operands, N*N scalars, row-major
    u, v,             \* VectorN operands
    k,                \* the scalar operand of the scaling functions
    op,               \* the function called last, "none" before any call
    out               \* what that call returned

vars == <<overflow_checks, n, A, B, C, u, v, k, op, out>>

(***************************************************************************)
(* Bounds                                                                  *)
(***************************************************************************)
\* width in bits of the signed scalar kind (i32, scaled down)
Bits == 10
\* the bounded scalar set is -MaxScalar..MaxScalar
MaxScalar == 2

(***************************************************************************)
(* The scalar kind                                                         *)
(***************************************************************************)
Modulus == 2 ^ Bits
MinInt == -(2 ^ (Bits - 1))
MaxInt == 2 ^ (Bits - 1) - 1

\* The value of an evaluation that panicked.  It is outside the scalar
\* range, so no scalar is mistaken for it.
Poison == MaxInt + 1

zero == 0
one == 1

InRange(x) == MinInt <= x /\ x <= MaxInt

\* two's complement wraparound into MinInt..MaxInt
Wrap(x) == ((x - MinInt) % Modulus) + MinInt

\* the exact result r of one native operation, as the build delivers it
Overflow(r) ==
    IF InRange(r) THEN r
    ELSE IF overflow_checks THEN Poison
    ELSE Wrap(r)

\* lhs + rhs, lhs - rhs, lhs * rhs of the scalar kind; an operand that
\* panicked never reaches the operator, the panic goes on unwinding
Add(x, y) == IF x = Poison \/ y = Poison THEN Poison ELSE Overflow(x + y)
Sub(x, y) == IF x = Poison \/ y = Poison THEN Poison ELSE Overflow(x - y)
Mul(x, y) == IF x = Poison \/ y = Poison THEN Poison ELSE Overflow(x * y)

\* arr[i] with the source's indices, which start at 0
At(arr, i) == arr[i + 1]

\* an array expression [e0, e1, ...]: a panic in one element is a panic of
\* the whole call, and no array is returned
Unwind(arr) ==
    IF \E i \in 1..Len(arr) : arr[i] = Poison
    THEN [i \in 1..Len(arr) |-> Poison]
    ELSE arr

Panicked(arr) == \E i \in 1..Len(arr) : arr[i] = Poison

(***************************************************************************)
(* vector.rs                                                               *)
(***************************************************************************)
vec2_add(lhs, rhs) ==
    Unwind(<< Add(At(lhs, 0), At(rhs, 0)),
              Add(At(lhs, 1), At(rhs, 1)) >>)

vec3_add(lhs, rhs) ==
    Unwind(<< Add(At(lhs, 0), At(rhs, 0)),
              Add(At(lhs, 1), At(rhs, 1)),
              Add(At(lhs, 2), At(rhs, 2)) >>)

vec4_add(lhs, rhs) ==
    Unwind(<< Add(At(lhs, 0), At(rhs, 0)),
              Add(At(lhs, 1), At(rhs, 1)),
              Add(At(lhs, 2), At(rhs, 2)),
              Add(At(lhs, 3), At(rhs, 3)) >>)

vec2_sub(lhs, rhs) ==
    Unwind(<< Sub(At(lhs, 0), At(rhs, 0)),
              Sub(At(lhs, 1), At(rhs, 1)) >>)

\* the last component subtracts rhs[1] where it should subtract rhs[2]
vec3_sub_slip(lhs, rhs) ==
    Unwind(<< Sub(At(lhs, 0), At(rhs, 0)),
              Sub(At(lhs, 1), At(rhs, 1)),
              Sub(At(lhs, 2), At(rhs, 1)) >>)

vec3_sub(lhs, rhs) ==
    Unwind(<< Sub(At(lhs, 0), At(rhs, 0)),
              Sub(At(lhs, 1), At(rhs, 1)),
              Sub(At(lhs, 2), At(rhs, 2)) >>)

vec4_sub(lhs, rhs) ==
    Unwind(<< Sub(At(lhs, 0), At(rhs, 0)),
              Sub(At(lhs, 1), At(rhs, 1)),
              Sub(At(lhs, 2), At(rhs, 2)),
              Sub(At(lhs, 3), At(rhs, 3)) >>)

vec2_mul(lhs, rhs) ==
    Unwind(<< Mul(At(lhs, 0), rhs),
              Mul(At(lhs, 1), rhs) >>)

vec3_mul(lhs, rhs) ==
    Unwind(<< Mul(At(lhs, 0), rhs),
              Mul(At(lhs, 1), rhs),
              Mul(At(lhs, 2), rhs) >>)

\* the last component is returned unscaled
vec4_mul_slip(lhs, rhs) ==
    Unwind(<< Mul(At(lhs, 0), rhs),
              Mul(At(lhs, 1), rhs),
              Mul(At(lhs, 2), rhs),
              At(lhs, 3) >>)

vec4_mul(lhs, rhs) ==
    Unwind(<< Mul(At(lhs, 0), rhs),
              Mul(At(lhs, 1), rhs),
              Mul(At(lhs, 2), rhs),
              Mul(At(lhs, 3), rhs) >>)

\* lhs.zip(rhs): the pairs, in order, up to the shorter of the two
Zip(lhs, rhs) ==
    [i \in 1..(IF Len(lhs) <= Len(rhs) THEN Len(lhs) ELSE Len(rhs))
        |-> <<lhs[i], rhs[i]>>]

\* .fold(acc, |acc, (&a, &b)| acc + a * b)
RECURSIVE Fold(_, _)
Fold(acc, pairs) ==
    IF pairs = << >> THEN acc
    ELSE Fold(Add(acc, Mul(Head(pairs)[1], Head(pairs)[2])), Tail(pairs))

\* the closure reads its first operand twice
RECURSIVE FoldSquares(_, _)
FoldSquares(acc, pairs) ==
    IF pairs = << >> THEN acc
    ELSE FoldSquares(Add(acc, Mul(Head(pairs)[1], Head(pairs)[1])), Tail(pairs))

dot_product_squares(lhs, rhs) == FoldSquares(zero, Zip(lhs, rhs))

\* the last pair is never consumed
dot_product_short(lhs, rhs) ==
    Fold(zero, SubSeq(Zip(lhs, rhs), 1, Len(lhs) - 1))

dot_product(lhs, rhs) == Fold(zero, Zip(lhs, rhs))

vec2_dot(lhs, rhs) == dot_product(lhs, rhs)
vec3_dot(lhs, rhs) == dot_product(lhs, rhs)
vec4_dot(lhs, rhs) == dot_product(lhs, rhs)

\* the left-handed product: every component negated
vec3_cross_left(lhs, rhs) ==
    Unwind(<< Sub(Mul(At(lhs, 2), At(rhs, 1)), Mul(At(lhs, 1), At(rhs, 2))),
              Sub(Mul(At(lhs, 0), At(rhs, 2)), Mul(At(lhs, 2), At(rhs, 0))),
              Sub(Mul(At(lhs, 1), At(rhs, 0)), Mul(At(lhs, 0), At(rhs, 1))) >>)

\* the last component subtracts the wrong product
vec3_cross_slip(lhs, rhs) ==
    Unwind(<< Sub(Mul(At(lhs, 1), At(rhs, 2)), Mul(At(lhs, 2), At(rhs, 1))),
              Sub(Mul(At(lhs, 2), At(rhs, 0)), Mul(At(lhs, 0), At(rhs, 2))),
              Sub(Mul(At(lhs, 0), At(rhs, 1)), Mul(At(lhs, 1), At(rhs, 1))) >>)

vec3_cross(lhs, rhs) ==
    Unwind(<< Sub(Mul(At(lhs, 1), At(rhs, 2)), Mul(At(lhs, 2), At(rhs, 1))),
              Sub(Mul(At(lhs, 2), At(rhs, 0)), Mul(At(lhs, 0), At(rhs, 2))),
              Sub(Mul(At(lhs, 0), At(rhs, 1)), Mul(At(lhs, 1), At(rhs, 0))) >>)

(***************************************************************************)
(* matrix.rs                                                               *)
(***************************************************************************)
mat2_identity ==
    << one,
       zero,
       zero,
       one >>

\* one() on the anti-diagonal, index i*3 + (2 - i)
mat3_identity_anti ==
    << zero, zero, one,
       zero, one, zero,
       one, zero, zero >>

mat3_identity ==
    << one,
       zero,
       zero,
       zero,
       one,
       zero,
       zero,
       zero,
       one >>

\* one() on the anti-diagonal, index i*4 + (3 - i)
mat4_identity_anti ==
    << zero,
       zero,
       zero,
       one,
       zero,
       zero,
       one,
       zero,
       zero,
       one,
       zero,
       zero,
       one,
       zero,
       zero,
       zero >>

mat4_identity ==
    << one,
       zero,
       zero,
       zero,
       zero,
       one,
       zero,
       zero,
       zero,
       zero,
       one,
       zero,
       zero,
       zero,
       zero,
       one >>

mat2_add(lhs, rhs) ==
    Unwind(<< Add(At(lhs, 0), At(rhs, 0)),
              Add(At(lhs, 1), At(rhs, 1)),
              Add(At(lhs, 2), At(rhs, 2)),
              Add(At(lhs, 3), At(rhs, 3)) >>)

mat3_add(lhs, rhs) ==
    Unwind(<< Add(At(lhs, 0), At(rhs, 0)),
              Add(At(lhs, 1), At(rhs, 1)),
              Add(At(lhs, 2), At(rhs, 2)),
              Add(At(lhs, 3), At(rhs, 3)),
              Add(At(lhs, 4), At(rhs, 4)),
              Add(At(lhs, 5), At(rhs, 5)),
              Add(At(lhs, 6), At(rhs, 6)),
              Add(At(lhs, 7), At(rhs, 7)),
              Add(At(lhs, 8), At(rhs, 8)) >>)

mat4_add(lhs, rhs) ==
    Unwind(<< Add(At(lhs, 0), At(rhs, 0)),
              Add(At(lhs, 1), At(rhs, 1)),
              Add(At(lhs, 2), At(rhs, 2)),
              Add(At(lhs, 3), At(rhs, 3)),
              Add(At(lhs, 4), At(rhs, 4)),
              Add(At(lhs, 5), At(rhs, 5)),
              Add(At(lhs, 6), At(rhs, 6)),
              Add(At(lhs, 7), At(rhs, 7)),
              Add(At(lhs, 8), At(rhs, 8)),
              Add(At(lhs, 9), At(rhs, 9)),
              Add(At(lhs, 10), At(rhs, 10)),
              Add(At(lhs, 11), At(rhs, 11)),
              Add(At(lhs, 12), At(rhs, 12)),
              Add(At(lhs, 13), At(rhs, 13)),
              Add(At(lhs, 14), At(rhs, 14)),
              Add(At(lhs, 15), At(rhs, 15)) >>)

mat2_sub(lhs, rhs) ==
    Unwind(<< Sub(At(lhs, 0), At(rhs, 0)),
              Sub(At(lhs, 1), At(rhs, 1)),
              Sub(At(lhs, 2), At(rhs, 2)),
              Sub(At(lhs, 3), At(rhs, 3)) >>)

mat3_sub(lhs, rhs) ==
    Unwind(<< Sub(At(lhs, 0), At(rhs, 0)),
              Sub(At(lhs, 1), At(rhs, 1)),
              Sub(At(lhs, 2), At(rhs, 2)),
              Sub(At(lhs, 3), At(rhs, 3)),
              Sub(At(lhs, 4), At(rhs, 4)),
              Sub(At(lhs, 5), At(rhs, 5)),
              Sub(At(lhs, 6), At(rhs, 6)),
              Sub(At(lhs, 7), At(rhs, 7)),
              Sub(At(lhs, 8), At(rhs, 8)) >>)

mat4_sub(lhs, rhs) ==
    Unwind(<< Sub(At(lhs, 0), At(rhs, 0)),
              Sub(At(lhs, 1), At(rhs, 1)),
              Sub(At(lhs, 2), At(rhs, 2)),
              Sub(At(lhs, 3), At(rhs, 3)),
              Sub(At(lhs, 4), At(rhs, 4)),
              Sub(At(lhs, 5), At(rhs, 5)),
              Sub(At(lhs, 6), At(rhs, 6)),
              Sub(At(lhs, 7), At(rhs, 7)),
              Sub(At(lhs, 8), At(rhs, 8)),
              Sub(At(lhs, 9), At(rhs, 9)),
              Sub(At(lhs, 10), At(rhs, 10)),
              Sub(At(lhs, 11), At(rhs, 11)),
              Sub(At(lhs, 12), At(rhs, 12)),
              Sub(At(lhs, 13), At(rhs, 13)),
              Sub(At(lhs, 14), At(rhs, 14)),
              Sub(At(lhs, 15), At(rhs, 15)) >>)

mat2_scale(lhs, rhs) ==
    Unwind(<< Mul(At(lhs, 0), rhs),
              Mul(At(lhs, 1), rhs),
              Mul(At(lhs, 2), rhs),
              Mul(At(lhs, 3), rhs) >>)

mat3_scale(lhs, rhs) ==
    Unwind(<< Mul(At(lhs, 0), rhs),
              Mul(At(lhs, 1), rhs),
              Mul(At(lhs, 2), rhs),
              Mul(At(lhs, 3), rhs),
              Mul(At(lhs, 4), rhs),
              Mul(At(lhs, 5), rhs),
              Mul(At(lhs, 6), rhs),
              Mul(At(lhs, 7), rhs),
              Mul(At(lhs, 8), rhs) >>)

mat4_scale(lhs, rhs) ==
    Unwind(<< Mul(At(lhs, 0), rhs),
              Mul(At(lhs, 1), rhs),
              Mul(At(lhs, 2), rhs),
              Mul(At(lhs, 3), rhs),
              Mul(At(lhs, 4), rhs),
              Mul(At(lhs, 5), rhs),
              Mul(At(lhs, 6), rhs),
              Mul(At(lhs, 7), rhs),
              Mul(At(lhs, 8), rhs),
              Mul(At(lhs, 9), rhs),
              Mul(At(lhs, 10), rhs),
              Mul(At(lhs, 11), rhs),
              Mul(At(lhs, 12), rhs),
              Mul(At(lhs, 13), rhs),
              Mul(At(lhs, 14), rhs),
              Mul(At(lhs, 15), rhs) >>)

\* the last element reads rhs[2] where it should read rhs[3]
mat2_mul_slip(lhs, rhs) ==
    Unwind(<< Add(Mul(At(lhs, 0), At(rhs, 0)), Mul(At(lhs, 1), At(rhs, 2))),
              Add(Mul(At(lhs, 0), At(rhs, 1)), Mul(At(lhs, 1), At(rhs, 3))),
              Add(Mul(At(lhs, 2), At(rhs, 0)), Mul(At(lhs, 3), At(rhs, 2))),
              Add(Mul(At(lhs, 2), At(rhs, 1)), Mul(At(lhs, 3), At(rhs, 2))) >>)

mat2_mul(lhs, rhs) ==
    Unwind(<< Add(Mul(At(lhs, 0), At(rhs, 0)), Mul(At(lhs, 1), At(rhs, 2))),
              Add(Mul(At(lhs, 0), At(rhs, 1)), Mul(At(lhs, 1), At(rhs, 3))),
              Add(Mul(At(lhs, 2), At(rhs, 0)), Mul(At(lhs, 3), At(rhs, 2))),
              Add(Mul(At(lhs, 2), At(rhs, 1)), Mul(At(lhs, 3), At(rhs, 3))) >>)

\* the centre element reads rhs[5] where it should read rhs[4]
mat3_mul_slip(lhs, rhs) ==
    Unwind(<< Add(Add(Mul(At(lhs, 0), At(rhs, 0)), Mul(At(lhs, 1), At(rhs, 3))), Mul(At(lhs, 2), At(rhs, 6))),
              Add(Add(Mul(At(lhs, 0), At(rhs, 1)), Mul(At(lhs, 1), At(rhs, 4))), Mul(At(lhs, 2), At(rhs, 7))),
              Add(Add(Mul(At(lhs, 0), At(rhs, 2)), Mul(At(lhs, 1), At(rhs, 5))), Mul(At(lhs, 2), At(rhs, 8))),
              Add(Add(Mul(At(lhs, 3), At(rhs, 0)), Mul(At(lhs, 4), At(rhs, 3))), Mul(At(lhs, 5), At(rhs, 6))),
              Add(Add(Mul(At(lhs, 3), At(rhs, 1)), Mul(At(lhs, 4), At(rhs, 5))), Mul(At(lhs, 5), At(rhs, 7))),
              Add(Add(Mul(At(lhs, 3), At(rhs, 2)), Mul(At(lhs, 4), At(rhs, 5))), Mul(At(lhs, 5), At(rhs, 8))),
              Add(Add(Mul(At(lhs, 6), At(rhs, 0)), Mul(At(lhs, 7), At(rhs, 3))), Mul(At(lhs, 8), At(rhs, 6))),
              Add(Add(Mul(At(lhs, 6), At(rhs, 1)), Mul(At(lhs, 7), At(rhs, 4))), Mul(At(lhs, 8), At(rhs, 7))),
              Add(Add(Mul(At(lhs, 6), At(rhs, 2)), Mul(At(lhs, 7), At(rhs, 5))), Mul(At(lhs, 8), At(rhs, 8))) >>)

mat3_mul(lhs, rhs) ==
    Unwind(<< Add(Add(Mul(At(lhs, 0), At(rhs, 0)), Mul(At(lhs, 1), At(rhs, 3))), Mul(At(lhs, 2), At(rhs, 6))),
              Add(Add(Mul(At(lhs, 0), At(rhs, 1)), Mul(At(lhs, 1), At(rhs, 4))), Mul(At(lhs, 2), At(rhs, 7))),
              Add(Add(Mul(At(lhs, 0), At(rhs, 2)), Mul(At(lhs, 1), At(rhs, 5))), Mul(At(lhs, 2), At(rhs, 8))),
              Add(Add(Mul(At(lhs, 3), At(rhs, 0)), Mul(At(lhs, 4), At(rhs, 3))), Mul(At(lhs, 5), At(rhs, 6))),
              Add(Add(Mul(At(lhs, 3), At(rhs, 1)), Mul(At(lhs, 4), At(rhs, 4))), Mul(At(lhs, 5), At(rhs, 7))),
              Add(Add(Mul(At(lhs, 3), At(rhs, 2)), Mul(At(lhs, 4), At(rhs, 5))), Mul(At(lhs, 5), At(rhs, 8))),
              Add(Add(Mul(At(lhs, 6), At(rhs, 0)), Mul(At(lhs, 7), At(rhs, 3))), Mul(At(lhs, 8), At(rhs, 6))),
              Add(Add(Mul(At(lhs, 6), At(rhs, 1)), Mul(At(lhs, 7), At(rhs, 4))), Mul(At(lhs, 8), At(rhs, 7))),
              Add(Add(Mul(At(lhs, 6), At(rhs, 2)), Mul(At(lhs, 7), At(rhs, 5))), Mul(At(lhs, 8), At(rhs, 8))) >>)

\* the operands taken in the other order: rhs is the left operand
mat4_mul_swapped(lhs, rhs) ==
    Unwind(<< Add(Add(Add(Mul(At(rhs, 0), At(lhs, 0)), Mul(At(rhs, 1), At(lhs, 4))), Mul(At(rhs, 2), At(lhs, 8))), Mul(At(rhs, 3), At(lhs, 12))),
              Add(Add(Add(Mul(At(rhs, 0), At(lhs, 1)), Mul(At(rhs, 1), At(lhs, 5))), Mul(At(rhs, 2), At(lhs, 9))), Mul(At(rhs, 3), At(lhs, 13))),
              Add(Add(Add(Mul(At(rhs, 0), At(lhs, 2)), Mul(At(rhs, 1), At(lhs, 6))), Mul(At(rhs, 2), At(lhs, 10))), Mul(At(rhs, 3), At(lhs, 14))),
              Add(Add(Add(Mul(At(rhs, 0), At(lhs, 3)), Mul(At(rhs, 1), At(lhs, 7))), Mul(At(rhs, 2), At(lhs, 11))), Mul(At(rhs, 3), At(lhs, 15))),
              Add(Add(Add(Mul(At(rhs, 4), At(lhs, 0)), Mul(At(rhs, 5), At(lhs, 4))), Mul(At(rhs, 6), At(lhs, 8))), Mul(At(rhs, 7), At(lhs, 12))),
              Add(Add(Add(Mul(At(rhs, 4), At(lhs, 1)), Mul(At(rhs, 5), At(lhs, 5))), Mul(At(rhs, 6), At(lhs, 9))), Mul(At(rhs, 7), At(lhs, 13))),
              Add(Add(Add(Mul(At(rhs, 4), At(lhs, 2)), Mul(At(rhs, 5), At(lhs, 6))), Mul(At(rhs, 6), At(lhs, 10))), Mul(At(rhs, 7), At(lhs, 14))),
              Add(Add(Add(Mul(At(rhs, 4), At(lhs, 3)), Mul(At(rhs, 5), At(lhs, 7))), Mul(At(rhs, 6), At(lhs, 11))), Mul(At(rhs, 7), At(lhs, 15))),
              Add(Add(Add(Mul(At(rhs, 8), At(lhs, 0)), Mul(At(rhs, 9), At(lhs, 4))), Mul(At(rhs, 10), At(lhs, 8))), Mul(At(rhs, 11), At(lhs, 12))),
              Add(Add(Add(Mul(At(rhs, 8), At(lhs, 1)), Mul(At(rhs, 9), At(lhs, 5))), Mul(At(rhs, 10), At(lhs, 9))), Mul(At(rhs, 11), At(lhs, 13))),
              Add(Add(Add(Mul(At(rhs, 8), At(lhs, 2)), Mul(At(rhs, 9), At(lhs, 6))), Mul(At(rhs, 10), At(lhs, 10))), Mul(At(rhs, 11), At(lhs, 14))),
              Add(Add(Add(Mul(At(rhs, 8), At(lhs, 3)), Mul(At(rhs, 9), At(lhs, 7))), Mul(At(rhs, 10), At(lhs, 11))), Mul(At(rhs, 11), At(lhs, 15))),
              Add(Add(Add(Mul(At(rhs, 12), At(lhs, 0)), Mul(At(rhs, 13), At(lhs, 4))), Mul(At(rhs, 14), At(lhs, 8))), Mul(At(rhs, 15), At(lhs, 12))),
              Add(Add(Add(Mul(At(rhs, 12), At(lhs, 1)), Mul(At(rhs, 13), At(lhs, 5))), Mul(At(rhs, 14), At(lhs, 9))), Mul(At(rhs, 15), At(lhs, 13))),
              Add(Add(Add(Mul(At(rhs, 12), At(lhs, 2)), Mul(At(rhs, 13), At(lhs, 6))), Mul(At(rhs, 14), At(lhs, 10))), Mul(At(rhs, 15), At(lhs, 14))),
              Add(Add(Add(Mul(At(rhs, 12), At(lhs, 3)), Mul(At(rhs, 13), At(lhs, 7))), Mul(At(rhs, 14), At(lhs, 11))), Mul(At(rhs, 15), At(lhs, 15))) >>)

mat4_mul(lhs, rhs) ==
    Unwind(<< Add(Add(Add(Mul(At(lhs, 0), At(rhs, 0)), Mul(At(lhs, 1), At(rhs, 4))), Mul(At(lhs, 2), At(rhs, 8))), Mul(At(lhs, 3), At(rhs, 12))),
              Add(Add(Add(Mul(At(lhs, 0), At(rhs, 1)), Mul(At(lhs, 1), At(rhs, 5))), Mul(At(lhs, 2), At(rhs, 9))), Mul(At(lhs, 3), At(rhs, 13))),
              Add(Add(Add(Mul(At(lhs, 0), At(rhs, 2)), Mul(At(lhs, 1), At(rhs, 6))), Mul(At(lhs, 2), At(rhs, 10))), Mul(At(lhs, 3), At(rhs, 14))),
              Add(Add(Add(Mul(At(lhs, 0), At(rhs, 3)), Mul(At(lhs, 1), At(rhs, 7))), Mul(At(lhs, 2), At(rhs, 11))), Mul(At(lhs, 3), At(rhs, 15))),
              Add(Add(Add(Mul(At(lhs, 4), At(rhs, 0)), Mul(At(lhs, 5), At(rhs, 4))), Mul(At(lhs, 6), At(rhs, 8))), Mul(At(lhs, 7), At(rhs, 12))),
              Add(Add(Add(Mul(At(lhs, 4), At(rhs, 1)), Mul(At(lhs, 5), At(rhs, 5))), Mul(At(lhs, 6), At(rhs, 9))), Mul(At(lhs, 7), At(rhs, 13))),
              Add(Add(Add(Mul(At(lhs, 4), At(rhs, 2)), Mul(At(lhs, 5), At(rhs, 6))), Mul(At(lhs, 6), At(rhs, 10))), Mul(At(lhs, 7), At(rhs, 14))),
              Add(Add(Add(Mul(At(lhs, 4), At(rhs, 3)), Mul(At(lhs, 5), At(rhs, 7))), Mul(At(lhs, 6), At(rhs, 11))), Mul(At(lhs, 7), At(rhs, 15))),
              Add(Add(Add(Mul(At(lhs, 8), At(rhs, 0)), Mul(At(lhs, 9), At(rhs, 4))), Mul(At(lhs, 10), At(rhs, 8))), Mul(At(lhs, 11), At(rhs, 12))),
              Add(Add(Add(Mul(At(lhs, 8), At(rhs, 1)), Mul(At(lhs, 9), At(rhs, 5))), Mul(At(lhs, 10), At(rhs, 9))), Mul(At(lhs, 11), At(rhs, 13))),
              Add(Add(Add(Mul(At(lhs, 8), At(rhs, 2)), Mul(At(lhs, 9), At(rhs, 6))), Mul(At(lhs, 10), At(rhs, 10))), Mul(At(lhs, 11), At(rhs, 14))),
              Add(Add(Add(Mul(At(lhs, 8), At(rhs, 3)), Mul(At(lhs, 9), At(rhs, 7))), Mul(At(lhs, 10), At(rhs, 11))), Mul(At(lhs, 11), At(rhs, 15))),
              Add(Add(Add(Mul(At(lhs, 12), At(rhs, 0)), Mul(At(lhs, 13), At(rhs, 4))), Mul(At(lhs, 14), At(rhs, 8))), Mul(At(lhs, 15), At(rhs, 12))),
              Add(Add(Add(Mul(At(lhs, 12), At(rhs, 1)), Mul(At(lhs, 13), At(rhs, 5))), Mul(At(lhs, 14), At(rhs, 9))), Mul(At(lhs, 15), At(rhs, 13))),
              Add(Add(Add(Mul(At(lhs, 12), At(rhs, 2)), Mul(At(lhs, 13), At(rhs, 6))), Mul(At(lhs, 14), At(rhs, 10))), Mul(At(lhs, 15), At(rhs, 14))),
              Add(Add(Add(Mul(At(lhs, 12), At(rhs, 3)), Mul(At(lhs, 13), At(rhs, 7))), Mul(At(lhs, 14), At(rhs, 11))), Mul(At(lhs, 15), At(rhs, 15))) >>)

\* the vector taken as a row vector: result[c] = sum over r of lhs[r*4 + c] * rhs[r]
mat4_transform_vec_row(lhs, rhs) ==
    Unwind(<< Add(Add(Add(Mul(At(lhs, 0), At(rhs, 0)), Mul(At(lhs, 4), At(rhs, 1))), Mul(At(lhs, 8), At(rhs, 2))), Mul(At(lhs, 12), At(rhs, 3))),
              Add(Add(Add(Mul(At(lhs, 1), At(rhs, 0)), Mul(At(lhs, 5), At(rhs, 1))), Mul(At(lhs, 9), At(rhs, 2))), Mul(At(lhs, 13), At(rhs, 3))),
              Add(Add(Add(Mul(At(lhs, 2), At(rhs, 0)), Mul(At(lhs, 6), At(rhs, 1))), Mul(At(lhs, 10), At(rhs, 2))), Mul(At(lhs, 14), At(rhs, 3))),
              Add(Add(Add(Mul(At(lhs, 3), At(rhs, 0)), Mul(At(lhs, 7), At(rhs, 1))), Mul(At(lhs, 11), At(rhs, 2))), Mul(At(lhs, 15), At(rhs, 3))) >>)

mat4_transform_vec(lhs, rhs) ==
    Unwind(<< Add(Add(Add(Mul(At(lhs, 0), At(rhs, 0)), Mul(At(lhs, 1), At(rhs, 1))), Mul(At(lhs, 2), At(rhs, 2))), Mul(At(lhs, 3), At(rhs, 3))),
              Add(Add(Add(Mul(At(lhs, 4), At(rhs, 0)), Mul(At(lhs, 5), At(rhs, 1))), Mul(At(lhs, 6), At(rhs, 2))), Mul(At(lhs, 7), At(rhs, 3))),
              Add(Add(Add(Mul(At(lhs, 8), At(rhs, 0)), Mul(At(lhs, 9), At(rhs, 1))), Mul(At(lhs, 10), At(rhs, 2))), Mul(At(lhs, 11), At(rhs, 3))),
              Add(Add(Add(Mul(At(lhs, 12), At(rhs, 0)), Mul(At(lhs, 13), At(rhs, 1))), Mul(At(lhs, 14), At(rhs, 2))), Mul(At(lhs, 15), At(rhs, 3))) >>)

(***************************************************************************)
(* The caller                                                              *)
(***************************************************************************)
Dims == {2, 3, 4}

\* a dense array over the bounded scalar set -MaxScalar..MaxScalar
Ramp(len, p, q) ==
    [i \in 1..len |-> ((p * i + q) % (2 * MaxScalar + 1)) - MaxScalar]

\* arrays that hold the ends of the scalar range
Extreme(len) == [i \in 1..len |-> IF i % 2 = 1 THEN MaxInt ELSE MinInt]
Spike(len) ==
    [i \in 1..len |-> IF i = 1 THEN MinInt ELSE IF i = 2 THEN one ELSE zero]

ArraySeeds(len) == {Ramp(len, 1, 0), Ramp(len, 2, 1), Extreme(len), Spike(len)}
ScalarSeeds == {-one, MaxScalar}

\* every entry lies in the bounded scalar set
Bounded(arr) ==
    \A i \in 1..Len(arr) : -MaxScalar <= arr[i] /\ arr[i] <= MaxScalar

Init ==
    /\ overflow_checks \in BOOLEAN
    /\ n \in Dims
    /\ A \in ArraySeeds(n * n)
    /\ B \in ArraySeeds(n * n)
    /\ C \in ArraySeeds(n * n)
    /\ u \in ArraySeeds(n)
    /\ v \in ArraySeeds(n)
    /\ k \in ScalarSeeds
    /\ op = "none"
    /\ out = << >>

\* one call of a library function: the operands are passed by value and
\* stay as they are, the caller keeps the result
Call(name, result) ==
    /\ op' = name
    /\ out' = result
    /\ UNCHANGED <<overflow_checks, n, A, B, C, u, v, k>>

Mat2Identity == n = 2 /\ Call("mat2_identity", mat2_identity)
Mat3Identity == n = 3 /\ Call("mat3_identity", mat3_identity)
Mat4Identity == n = 4 /\ Call("mat4_identity", mat4_identity)
Mat2Add == n = 2 /\ Call("mat2_add", mat2_add(A, B))
Mat3Add == n = 3 /\ Call("mat3_add", mat3_add(A, B))
Mat4Add == n = 4 /\ Call("mat4_add", mat4_add(A, B))
Mat2Sub == n = 2 /\ Call("mat2_sub", mat2_sub(A, B))
Mat3Sub == n = 3 /\ Call("mat3_sub", mat3_sub(A, B))
Mat4Sub == n = 4 /\ Call("mat4_sub", mat4_sub(A, B))
Mat2Scale == n = 2 /\ Call("mat2_scale", mat2_scale(A, k))
Mat3Scale == n = 3 /\ Call("mat3_scale", mat3_scale(A, k))
Mat4Scale == n = 4 /\ Call("mat4_scale", mat4_scale(A, k))
Mat2Mul == n = 2 /\ Call("mat2_mul", mat2_mul(A, B))
Mat3Mul == n = 3 /\ Call("mat3_mul", mat3_mul(A, B))
Mat4Mul == n = 4 /\ Call("mat4_mul", mat4_mul(A, B))
Mat4TransformVec == n = 4 /\ Call("mat4_transform_vec", mat4_transform_vec(A, v))
Vec2Add == n = 2 /\ Call("vec2_add", vec2_add(u, v))
Vec3Add == n = 3 /\ Call("vec3_add", vec3_add(u, v))
Vec4Add == n = 4 /\ Call("vec4_add", vec4_add(u, v))
Vec2Sub == n = 2 /\ Call("vec2_sub", vec2_sub(u, v))
Vec3Sub == n = 3 /\ Call("vec3_sub", vec3_sub(u, v))
Vec4Sub == n = 4 /\ Call("vec4_sub", vec4_sub(u, v))
Vec2Mul == n = 2 /\ Call("vec2_mul", vec2_mul(u, k))
Vec3Mul == n = 3 /\ Call("vec3_mul", vec3_mul(u, k))
Vec4Mul == n = 4 /\ Call("vec4_mul", vec4_mul(u, k))
Vec2Dot == n = 2 /\ Call("vec2_dot", vec2_dot(u, v))
Vec3Dot == n = 3 /\ Call("vec3_dot", vec3_dot(u, v))
Vec4Dot == n = 4 /\ Call("vec4_dot", vec4_dot(u, v))
Vec3Cross == n = 3 /\ Call("vec3_cross", vec3_cross(u, v))

Next ==
    \/ Mat2Identity
    \/ Mat3Identity
    \/ Mat4Identity
    \/ Mat2Add
    \/ Mat3Add
    \/ Mat4Add
    \/ Mat2Sub
    \/ Mat3Sub
    \/ Mat4Sub
    \/ Mat2Scale
    \/ Mat3Scale
    \/ Mat4Scale
    \/ Mat2Mul
    \/ Mat3Mul
    \/ Mat4Mul
    \/ Mat4TransformVec
    \/ Vec2Add
    \/ Vec3Add
    \/ Vec4Add
    \/ Vec2Sub
    \/ Vec3Sub
    \/ Vec4Sub
    \/ Vec2Mul
    \/ Vec3Mul
    \/ Vec4Mul
    \/ Vec2Dot
    \/ Vec3Dot
    \/ Vec4Dot
    \/ Vec3Cross

Spec == Init /\ [][Next]_vars

(***************************************************************************)
(* Properties                                                              *)
(***************************************************************************)
\* two calls returned, and returned the same array
Same(x, y) == ~Panicked(x) /\ ~Panicked(y) /\ x = y

Operands == {A, B, C}
Vectors == {u, v}

\* C1: for N = 2, 3, 4 and every NxN matrix M, matN_mul(matN_identity(), M)
\* and matN_mul(M, matN_identity()) both return M.  out is the matrix
\* matN_identity() returned.
C1_IdentityIsNeutral ==
    /\ op = "mat2_identity" =>
         \A M \in Operands : mat2_mul(out, M) = M /\ mat2_mul(M, out) = M
    /\ op = "mat3_identity" =>
         \A M \in Operands : mat3_mul(out, M) = M /\ mat3_mul(M, out) = M
    /\ op = "mat4_identity" =>
         \A M \in Operands : mat4_mul(out, M) = M /\ mat4_mul(M, out) = M

\* C1 happens: the identity was built and multiplied with a matrix that is
\* not the identity, with and without values at the ends of the range
C1_Witness ==
    /\ op = "mat4_identity"
    /\ A # out /\ Bounded(A) /\ ~Bounded(B)
    /\ mat4_mul(out, A) = A /\ mat4_mul(B, out) = B

\* sum over kk = 0..last, in ascending kk, of lhs[r*N + kk] * rhs[kk*N + c],
\* with the + and * of the scalar kind
RECURSIVE RowByColumn(_, _, _, _, _, _)
RowByColumn(N, lhs, rhs, r, c, last) ==
    IF last = 0
    THEN Mul(At(lhs, r * N), At(rhs, c))
    ELSE Add(RowByColumn(N, lhs, rhs, r, c, last - 1),
             Mul(At(lhs, r * N + last), At(rhs, last * N + c)))

\* product is matN_mul(lhs, rhs) as the row-major matrix product states it
IsProduct(N, lhs, rhs, product) ==
    /\ Len(product) = N * N
    /\ Panicked(product) <=>
         \E r, c \in 0..(N - 1) : RowByColumn(N, lhs, rhs, r, c, N - 1) = Poison
    /\ ~Panicked(product) =>
         \A r, c \in 0..(N - 1) :
            At(product, r * N + c) = RowByColumn(N, lhs, rhs, r, c, N - 1)

\* C2: for N = 2, 3, 4 the element of matN_mul(lhs, rhs) at flat index
\* r*N + c is the sum over k = 0..N-1, in ascending k, of
\* lhs[r*N + k] * rhs[k*N + c]; the call panics exactly when one of these
\* sums does.
C2_MulIsRowByColumn ==
    /\ op = "mat2_mul" => IsProduct(2, A, B, out)
    /\ op = "mat3_mul" => IsProduct(3, A, B, out)
    /\ op = "mat4_mul" => IsProduct(4, A, B, out)

\* C2 happens: a product of two different dense matrices was returned, and
\* it is not symmetric in its operands
C2_Witness ==
    /\ op = "mat3_mul"
    /\ ~Panicked(out) /\ Bounded(A) /\ Bounded(B) /\ A # B
    /\ out # mat3_mul(B, A)
    /\ \E i \in 1..Len(out) : out[i] # zero

\* sum over c = 0..last, ascending, of m[r*4 + c] * vec[c]
RECURSIVE RowByVector(_, _, _, _)
RowByVector(m, vec, r, last) ==
    IF last = 0
    THEN Mul(At(m, r * 4), At(vec, 0))
    ELSE Add(RowByVector(m, vec, r, last - 1),
             Mul(At(m, r * 4 + last), At(vec, last)))

\* C3: component r of mat4_transform_vec(m, v) is the sum over c = 0..3 of
\* m[r*4 + c] * v[c], the vector being a column vector; and
\* mat4_transform_vec(mat4_identity(), v) returns v.
C3_TransformIsRowByVector ==
    /\ op = "mat4_transform_vec" =>
         /\ Len(out) = 4
         /\ Panicked(out) <=> \E r \in 0..3 : RowByVector(A, v, r, 3) = Poison
         /\ ~Panicked(out) =>
              \A r \in 0..3 : At(out, r) = RowByVector(A, v, r, 3)
    /\ op = "mat4_identity" =>
         \A w \in Vectors : mat4_transform_vec(out, w) = w

\* C3 happens: a dense matrix that is not symmetric transformed a vector
C3_Witness ==
    /\ op = "mat4_transform_vec"
    /\ ~Panicked(out) /\ Bounded(A) /\ Bounded(v)
    /\ At(A, 1) # At(A, 4)
    /\ out # v /\ \E i \in 1..4 : out[i] # zero

\* C4: for 4x4 matrices A, B and a vector w over the bounded scalar set,
\* mat4_transform_vec(mat4_mul(A, B), w) and
\* mat4_transform_vec(A, mat4_transform_vec(B, w)) return the same vector;
\* a build that wraps on overflow gives the same for every A, B and w.
\* out is the matrix mat4_mul(A, B) returned.
C4_TransformOfProduct ==
    op = "mat4_mul" =>
        \A w \in Vectors :
            (~overflow_checks \/ (Bounded(A) /\ Bounded(B) /\ Bounded(w))) =>
                Same(mat4_transform_vec(out, w),
                     mat4_transform_vec(A, mat4_transform_vec(B, w)))

\* C4 happens: two dense matrices that do not commute, and a vector the
\* product does not send to zero, in a build that checks overflow
C4_Witness ==
    /\ op = "mat4_mul" /\ overflow_checks
    /\ Bounded(A) /\ Bounded(B) /\ Bounded(v)
    /\ out # mat4_mul(B, A)
    /\ \E i \in 1..4 : mat4_transform_vec(out, v)[i] # zero
    /\ mat4_transform_vec(out, v) = mat4_transform_vec(A, mat4_transform_vec(B, v))

\* (lhs * rhs) * C and lhs * (rhs * C), the first product being given
Assoc2(product) == <<mat2_mul(product, C), mat2_mul(A, mat2_mul(B, C))>>
Assoc3(product) == <<mat3_mul(product, C), mat3_mul(A, mat3_mul(B, C))>>
Assoc4(product) == <<mat4_mul(product, C), mat4_mul(A, mat4_mul(B, C))>>

\* C5 as stated: for N = 2, 3, 4 and all NxN matrices A, B, C of an integer
\* scalar kind, matN_mul(matN_mul(A, B), C) and matN_mul(A, matN_mul(B, C))
\* return the same matrix, whatever overflows on the way.
\* out is the matrix matN_mul(A, B) returned.
C5_MulAssociative ==
    /\ op = "mat2_mul" => Same(Assoc2(out)[1], Assoc2(out)[2])
    /\ op = "mat3_mul" => Same(Assoc3(out)[1], Assoc3(out)[2])
    /\ op = "mat4_mul" => Same(Assoc4(out)[1], Assoc4(out)[2])

\* the two sides agree, or the build checks overflow and a side panicked
AgreeUnlessPanic(sides) ==
    \/ Same(sides[1], sides[2])
    \/ overflow_checks /\ (Panicked(sides[1]) \/ Panicked(sides[2]))

\* C5 as amended: in a build that wraps on overflow the two sides return
\* the same matrix for all A, B, C; in a build that checks overflow they
\* return the same matrix whenever both return, and an overflow in an
\* intermediate product or sum panics.
C5_MulAssociativeUnlessPanic ==
    /\ op = "mat2_mul" => AgreeUnlessPanic(Assoc2(out))
    /\ op = "mat3_mul" => AgreeUnlessPanic(Assoc3(out))
    /\ op = "mat4_mul" => AgreeUnlessPanic(Assoc4(out))

\* C5 happens both ways: products that wrapped agree in a build without
\* overflow checks
C5_Witness ==
    /\ op = "mat3_mul" /\ ~overflow_checks
    /\ A = Extreme(9) /\ B = Extreme(9) /\ Bounded(C) /\ A # C
    /\ Same(Assoc3(out)[1], Assoc3(out)[2])
    /\ \E i \in 1..9 : Assoc3(out)[1][i] # zero

\* some component of lhs + rhs is outside the scalar range
SumOverflows(lhs, rhs) == \E i \in 1..Len(lhs) : ~InRange(lhs[i] + rhs[i])

\* C6 as stated: vecN_sub(vecN_add(A, B), B) and matN_sub(matN_add(A, B), B)
\* return A for N = 2, 3, 4 and all integer scalar values, also when A + B
\* exceeds the scalar range.  out is what the add returned.
C6_SubUndoesAdd ==
    /\ op = "vec2_add" => vec2_sub(out, v) = u
    /\ op = "vec3_add" => vec3_sub(out, v) = u
    /\ op = "vec4_add" => vec4_sub(out, v) = u
    /\ op = "mat2_add" => mat2_sub(out, B) = A
    /\ op = "mat3_add" => mat3_sub(out, B) = A
    /\ op = "mat4_add" => mat4_sub(out, B) = A

\* the sub undoes the add, or the build checks overflow, a component sum is
\* outside the scalar range and the add panicked
UndoneUnlessPanic(lhs, rhs, sum, back) ==
    IF overflow_checks /\ SumOverflows(lhs, rhs)
    THEN Panicked(sum)
    ELSE ~Panicked(sum) /\ back = lhs

\* C6 as amended: sub(add(A, B), B) returns A for every shape in a build
\* that wraps on overflow, and in a build that checks overflow whenever
\* every component of A + B is inside the scalar range; in a build that
\* checks overflow the add panics when a component of A + B is outside it.
C6_SubUndoesAddUnlessPanic ==
    /\ op = "vec2_add" => UndoneUnlessPanic(u, v, out, vec2_sub(out, v))
    /\ op = "vec3_add" => UndoneUnlessPanic(u, v, out, vec3_sub(out, v))
    /\ op = "vec4_add" => UndoneUnlessPanic(u, v, out, vec4_sub(out, v))
    /\ op = "mat2_add" => UndoneUnlessPanic(A, B, out, mat2_sub(out, B))
    /\ op = "mat3_add" => UndoneUnlessPanic(A, B, out, mat3_sub(out, B))
    /\ op = "mat4_add" => UndoneUnlessPanic(A, B, out, mat4_sub(out, B))

\* C6 happens: a sum that wrapped is undone by the sub
C6_Witness ==
    /\ op = "vec3_add" /\ ~overflow_checks
    /\ SumOverflows(u, v) /\ u # v /\ At(v, 2) # At(v, 1)
    /\ vec3_sub(out, v) = u

\* the entries of the right-handed cross product as integers
CrossEntries(lhs, rhs) ==
    << At(lhs, 1) * At(rhs, 2) - At(lhs, 2) * At(rhs, 1),
       At(lhs, 2) * At(rhs, 0) - At(lhs, 0) * At(rhs, 2),
       At(lhs, 0) * At(rhs, 1) - At(lhs, 1) * At(rhs, 0) >>

\* C7: vec3_cross(lhs, rhs) is the right-handed cross product
\* [lhs[1]*rhs[2] - lhs[2]*rhs[1], lhs[2]*rhs[0] - lhs[0]*rhs[2],
\*  lhs[0]*rhs[1] - lhs[1]*rhs[0]]: these integers over the bounded scalar
\* set, and these integers modulo 2^Bits whenever the call returns;
\* vec3_cross([1,0,0], [0,1,0]) is [0,0,1].
C7_CrossIsRightHanded ==
    /\ op = "vec3_cross" =>
         /\ Len(out) = 3
         /\ Bounded(u) /\ Bounded(v) => out = CrossEntries(u, v)
         /\ ~Panicked(out) =>
              \A i \in 1..3 : out[i] = Wrap(CrossEntries(u, v)[i])
         /\ Panicked(out) => overflow_checks
    /\ op = "vec3_cross" => vec3_cross(<<1, 0, 0>>, <<0, 1, 0>>) = <<0, 0, 1>>

\* C7 happens: the cross product of two dense vectors that are not
\* parallel was returned
C7_Witness ==
    /\ op = "vec3_cross"
    /\ Bounded(u) /\ Bounded(v)
    /\ \A i \in 1..3 : out[i] # zero

C9_DotIsAscendingFold ==
    /\ op = "vec2_dot" =>
         out = Add(Add(zero, Mul(At(u, 0), At(v, 0))), Mul(At(u, 1), At(v, 1)))
    /\ op = "vec3_dot" =>
         out = Add(Add(Add(zero, Mul(At(u, 0), At(v, 0))),
                       Mul(At(u, 1), At(v, 1))),
                   Mul(At(u, 2), At(v, 2)))
    /\ op = "vec4_dot" =>
         out = Add(Add(Add(Add(zero, Mul(At(u, 0), At(v, 0))),
                           Mul(At(u, 1), At(v, 1))),
                       Mul(At(u, 2), At(v, 2))),
                   Mul(At(u, 3), At(v, 3)))

\* C9 happens: a dot product to which the last pair contributes
C9_Witness ==
    /\ op = "vec4_dot"
    /\ out # Poison /\ u # v
    /\ Mul(At(u, 3), At(v, 3)) # zero
    /\ out # zero

\* C10: for N = 2, 3, 4 and vectors a, b, vecN_dot(a, b) and vecN_dot(b, a)
\* end the same way, and over the bounded scalar set both return the same
\* scalar.  out is vecN_dot(u, v).
C10_DotCommutes ==
    /\ op = "vec2_dot" => out = vec2_dot(v, u)
    /\ op = "vec3_dot" => out = vec3_dot(v, u)
    /\ op = "vec4_dot" => out = vec4_dot(v, u)
    /\ op \in {"vec2_dot", "vec3_dot", "vec4_dot"} /\ Bounded(u) /\ Bounded(v) =>
         out # Poison

\* C10 happens: the dot product of two different dense vectors
C10_Witness ==
    /\ op = "vec3_dot"
    /\ Bounded(u) /\ Bounded(v) /\ u # v
    /\ out # zero /\ out = vec3_dot(v, u)
    /\ vec3_dot(u, u) # vec3_dot(v, v)

\* m has N*N elements, one() at every flat index r*N + c with r = c and
\* zero() at every other
IsIdentity(N, m) ==
    /\ Len(m) = N * N
    /\ \A r, c \in 0..(N - 1) :
          At(m, r * N + c) = IF r = c THEN one ELSE zero

\* no one() on the anti-diagonal, index i*N + (N-1-i), off the main diagonal
AntiDiagonalClear(N, m) ==
    \A i \in 0..(N - 1) :
        i # N - 1 - i => At(m, i * N + (N - 1 - i)) # one

\* C11: for N = 2, 3, 4, matN_identity() returns the N*N-element array with
\* one() at flat index r*N + c when r = c and zero() elsewhere; no one()
\* is on the anti-diagonal unless that index is on the main diagonal too.
C11_IdentityIsMainDiagonal ==
    /\ op = "mat2_identity" => IsIdentity(2, out) /\ AntiDiagonalClear(2, out)
    /\ op = "mat3_identity" => IsIdentity(3, out) /\ AntiDiagonalClear(3, out)
    /\ op = "mat4_identity" => IsIdentity(4, out) /\ AntiDiagonalClear(4, out)

\* C11 happens: the 3x3 identity was built; its centre is on both diagonals
C11_Witness ==
    /\ op = "mat3_identity"
    /\ At(out, 4) = one /\ At(out, 0) = one /\ At(out, 8) = one
    /\ At(out, 2) = zero /\ At(out, 6) = zero
    /\ one # zero

\* C13: for 3-component vectors a, b over the bounded scalar set,
\* vec3_dot(vec3_cross(a, b), a) and vec3_dot(vec3_cross(a, b), b) are
\* zero(); a build that wraps on overflow gives the same for every a and
\* b.  out is the vector vec3_cross(u, v) returned.
C13_CrossIsOrthogonal ==
    op = "vec3_cross" /\ (~overflow_checks \/ (Bounded(u) /\ Bounded(v))) =>
        /\ ~Panicked(out)
        /\ vec3_dot(out, u) = zero
        /\ vec3_dot(out, v) = zero

\* C13 happens: a cross product that is not zero, whose terms in
\* the dot product with each operand cancel, in a build that checks overflow
C13_Witness ==
    /\ op = "vec3_cross" /\ overflow_checks
    /\ Bounded(u) /\ Bounded(v)
    /\ \E i \in 1..3 : out[i] * u[i] # zero
    /\ \E i \in 1..3 : out[i] * v[i] # zero
    /\ vec3_dot(out, u) = zero /\ vec3_dot(out, v) = zero
    /\ vec3_dot(out, out) # zero

\* sum over i = 1..last of lhs[i] * rhs[i], as an integer
RECURSIVE ExactDot(_, _, _)
ExactDot(lhs, rhs, last) ==
    IF last = 0 THEN 0
    ELSE ExactDot(lhs, rhs, last - 1) + lhs[last] * rhs[last]

\* row r and column c of the row-major NxN matrix m
Row(N, m, r) == [j \in 1..N |-> At(m, r * N + (j - 1))]
Column(N, m, c) == [j \in 1..N |-> At(m, (j - 1) * N + c)]

ExactProduct(N, lhs, rhs) ==
    [i \in 1..(N * N) |->
        ExactDot(Row(N, lhs, (i - 1) \div N), Column(N, rhs, (i - 1) % N), N)]

ArithmeticOps ==
    {"vec2_add", "vec3_add", "vec4_add", "vec2_sub", "vec3_sub", "vec4_sub",
     "vec2_mul", "vec3_mul", "vec4_mul", "vec2_dot", "vec3_dot", "vec4_dot",
     "vec3_cross",
     "mat2_add", "mat3_add", "mat4_add", "mat2_sub", "mat3_sub", "mat4_sub",
     "mat2_scale", "mat3_scale", "mat4_scale",
     "mat2_mul", "mat3_mul", "mat4_mul", "mat4_transform_vec"}

DotOps == {"vec2_dot", "vec3_dot", "vec4_dot"}

\* what the call made last returns in the integers, element by element
\* (a scalar result is one element)
Exact ==
    CASE op \in {"vec2_add", "vec3_add", "vec4_add"} ->
            [i \in 1..n |-> u[i] + v[i]]
      [] op \in {"vec2_sub", "vec3_sub", "vec4_sub"} ->
            [i \in 1..n |-> u[i] - v[i]]
      [] op \in {"vec2_mul", "vec3_mul", "vec4_mul"} ->
            [i \in 1..n |-> u[i] * k]
      [] op \in DotOps -> << ExactDot(u, v, n) >>
      [] op = "vec3_cross" -> CrossEntries(u, v)
      [] op \in {"mat2_add", "mat3_add", "mat4_add"} ->
            [i \in 1..(n * n) |-> A[i] + B[i]]
      [] op \in {"mat2_sub", "mat3_sub", "mat4_sub"} ->
            [i \in 1..(n * n) |-> A[i] - B[i]]
      [] op \in {"mat2_scale", "mat3_scale", "mat4_scale"} ->
            [i \in 1..(n * n) |-> A[i] * k]
      [] op \in {"mat2_mul", "mat3_mul", "mat4_mul"} -> ExactProduct(n, A, B)
      [] op = "mat4_transform_vec" ->
            [r \in 1..4 |-> ExactDot(Row(4, A, r - 1), v, 4)]

\* the elements the call made last returned
Returned == IF op \in DotOps THEN << out >> ELSE out

WrapAll(arr) == [i \in 1..Len(arr) |-> Wrap(arr[i])]

\* C12 as stated: every vector and matrix operation is total over signed
\* w-bit integers: for every input it returns the value computed with
\* wraparound modulo 2^w, and never aborts.
C12_TotalWithWraparound ==
    op \in ArithmeticOps =>
        /\ ~Panicked(Returned)
        /\ Returned = WrapAll(Exact)

\* C12 as amended: in a build that wraps on overflow every operation
\* returns, for every input, the value computed with wraparound modulo 2^w;
\* in a build that checks overflow an operation returns the exact value or
\* panics, it panics whenever an element of the exact value is outside the
\* scalar range, and it returns over the bounded scalar set.
C12_TotalUnlessOverflowChecks ==
    op \in ArithmeticOps =>
        IF overflow_checks
        THEN /\ Panicked(Returned) \/ Returned = Exact
             /\ (\E i \in 1..Len(Exact) : ~InRange(Exact[i])) => Panicked(Returned)
             /\ (/\ \A w \in Operands \cup Vectors : Bounded(w)
                 /\ -MaxScalar <= k /\ k <= MaxScalar) => ~Panicked(Returned)
        ELSE /\ ~Panicked(Returned)
             /\ Returned = WrapAll(Exact)

\* C12 happens: a scaling whose products left the scalar range returned
\* the wrapped values
C12_Witness ==
    /\ op = "vec4_mul" /\ ~overflow_checks
    /\ \E i \in 1..4 : ~InRange(Exact[i])
    /\ out = WrapAll(Exact) /\ out # Exact
    /\ At(out, 3) # At(u, 3)

====
